---- MODULE Spec2Model ----
(***************************************************************************)
(* Model of the JsonLogic rule evaluator of src/jsonlogic.go.              *)
(*                                                                         *)
(* A Go interface{} value is a pair <<kind, payload>>; the kind is the     *)
(* reflect.Kind the code switches on.  Strings are sequences of one-       *)
(* character strings so that strings.Split, strings.Contains, the lexical  *)
(* order of Go strings, strconv.ParseFloat and strconv.FormatFloat can be  *)
(* computed.  float64 values are modelled by the integers.  A run-time     *)
(* panic (a failed type assertion, an index out of range, a comparison of  *)
(* uncomparable values) is the value PANIC, which every caller propagates. *)
(***************************************************************************)
EXTENDS Integers, Sequences, FiniteSets, TLC

VARIABLES rules, data, target, result, ret, calls

vars == <<rules, data, target, result, ret, calls>>

----------------------------------------------------------------------------
(* Values *)

Nil == <<"nil", "nil">>
Bool(b) == <<"bool", b>>
Float(n) == <<"float64", n>>
IntV(n) == <<"int", n>>
Str(s) == <<"string", s>>
Slice(a) == <<"slice", a>>
Map(m) == <<"map", m>>
PANIC == <<"panic", "panic">>

Kind(v) == v[1]
IsPanic(v) == Kind(v) = "panic"
EmptyMap == [k \in {} |-> Nil]

is(obj, kind) == Kind(obj) # "nil" /\ Kind(obj) = kind
isBool(obj) == is(obj, "bool")
isString(obj) == is(obj, "string")
isNumber(obj) == is(obj, "int") \/ is(obj, "float64")
isPrimitive(obj) == isBool(obj) \/ isString(obj) \/ isNumber(obj)
isMap(obj) == is(obj, "map")
isSlice(obj) == is(obj, "slice")

----------------------------------------------------------------------------
(* Strings and the strconv conversions *)

Digits == <<"0", "1", "2", "3", "4", "5", "6", "7", "8", "9">>
IsDigit(c) == \E i \in 1..10 : Digits[i] = c
DigitVal(c) == (CHOOSE i \in 1..10 : Digits[i] = c) - 1

\* The byte of a character (Go compares strings byte by byte).
Code(c) ==
    CASE c = "+" -> 43
      [] c = "-" -> 45
      [] c = "." -> 46
      [] IsDigit(c) -> 48 + DigitVal(c)
      [] c = "a" -> 97
      [] c = "b" -> 98
      [] c = "c" -> 99
      [] c = "d" -> 100
      [] c = "s" -> 115
      [] c = "x" -> 120

RECURSIVE DigitsVal(_)
DigitsVal(s) ==
    IF Len(s) = 0 THEN 0
    ELSE 10 * DigitsVal(SubSeq(s, 1, Len(s) - 1)) + DigitVal(s[Len(s)])

AllDigits(s) == Len(s) > 0 /\ \A i \in 1..Len(s) : IsDigit(s[i])

\* strconv.ParseFloat(s, 64) with its error dropped: a decimal integer with
\* an optional sign parses to its value, a malformed string yields 0.
ParseFloat(s) ==
    IF AllDigits(s) THEN DigitsVal(s)
    ELSE IF Len(s) > 1 /\ s[1] = "-" /\ AllDigits(Tail(s)) THEN 0 - DigitsVal(Tail(s))
    ELSE IF Len(s) > 1 /\ s[1] = "+" /\ AllDigits(Tail(s)) THEN DigitsVal(Tail(s))
    ELSE 0

RECURSIVE NatStr(_)
NatStr(n) ==
    IF n < 10 THEN <<Digits[n + 1]>>
    ELSE NatStr(n \div 10) \o <<Digits[(n % 10) + 1]>>

\* strconv.FormatFloat(f, 'f', -1, 64) of an integral f.
FormatFloat(n) == IF n < 0 THEN <<"-">> \o NatStr(0 - n) ELSE NatStr(n)

\* w > v on Go strings.
RECURSIVE StrGreater(_, _)
StrGreater(w, v) ==
    IF Len(w) = 0 THEN FALSE
    ELSE IF Len(v) = 0 THEN TRUE
    ELSE IF Code(w[1]) # Code(v[1]) THEN Code(w[1]) > Code(v[1])
    ELSE StrGreater(Tail(w), Tail(v))

\* strings.Contains(s, substr)
Contains(s, substr) ==
    \E i \in 0..(Len(s) - Len(substr)) : SubSeq(s, i + 1, i + Len(substr)) = substr

\* strings.Split(s, ".")
RECURSIVE Split(_)
Split(s) ==
    IF \A i \in 1..Len(s) : s[i] # "." THEN <<s>>
    ELSE LET i == CHOOSE k \in 1..Len(s) :
                      s[k] = "." /\ \A j \in 1..(k - 1) : s[j] # "."
         IN  <<SubSeq(s, 1, i - 1)>> \o Split(SubSeq(s, i + 1, Len(s)))

----------------------------------------------------------------------------
(* Short-circuit && and ||, and !, on results that may be PANIC *)

AndThen(x, y) == IF IsPanic(x) THEN PANIC ELSE IF x[2] THEN y ELSE Bool(FALSE)
OrElse(x, y) == IF IsPanic(x) THEN PANIC ELSE IF x[2] THEN Bool(TRUE) ELSE y
Not(x) == IF IsPanic(x) THEN PANIC ELSE Bool(~x[2])

----------------------------------------------------------------------------
(* The operator library *)

\* less with the comparison made numerically as soon as either operand is a
\* number, the string operand being the one parsed, whichever side it is on.
less_numericIfEither(a, b) ==
    IF Kind(a) = "float64" THEN
        IF isString(b) THEN Bool(ParseFloat(b[2]) > a[2])
        ELSE IF Kind(b) = "float64" THEN Bool(b[2] > a[2])
        ELSE PANIC
    ELSE IF Kind(a) = "string" THEN
        IF isNumber(b) THEN
            IF Kind(b) = "float64" THEN Bool(b[2] > ParseFloat(a[2]))
            ELSE PANIC
        ELSE IF Kind(b) = "string" THEN Bool(StrGreater(b[2], a[2]))
        ELSE PANIC
    ELSE Bool(FALSE)

less(a, b) ==
    IF Kind(a) = "float64" THEN
        IF isString(b) THEN Bool(ParseFloat(b[2]) > a[2])
        ELSE IF Kind(b) = "float64" THEN Bool(b[2] > a[2])
        ELSE PANIC
    ELSE IF Kind(a) = "string" THEN
        IF isNumber(b) THEN
            IF Kind(b) = "float64" THEN Bool(StrGreater(FormatFloat(b[2]), a[2]))
            ELSE PANIC
        ELSE IF Kind(b) = "string" THEN Bool(StrGreater(b[2], a[2]))
        ELSE PANIC
    ELSE Bool(FALSE)

equals(a, b) ==
    IF Kind(a) = "float64" THEN
        IF isString(b) THEN Bool(a[2] = ParseFloat(b[2]))
        ELSE IF Kind(b) = "float64" THEN Bool(a[2] = b[2])
        ELSE PANIC
    ELSE IF Kind(a) = "string" THEN
        IF Kind(b) = "string" THEN Bool(a[2] = b[2]) ELSE PANIC
    ELSE Bool(FALSE)

hardEquals(a, b) == IF Kind(a) # Kind(b) THEN Bool(FALSE) ELSE equals(a, b)

\* The operator names, as the keys of a rule object.
OpVar == <<"v", "a", "r">>
OpAnd == <<"a", "n", "d">>
OpOr == <<"o", "r">>
OpNot == <<"!">>
OpNotNot == <<"!", "!">>
OpTernary == <<"?", ":">>
OpIn == <<"i", "n">>
OpLt == <<"<">>
OpGt == <<">">>
OpLe == <<"<", "=">>
OpGe == <<">", "=">>
OpEq == <<"=", "=">>
OpNe == <<"!", "=">>
OpHardEq == <<"=", "=", "=">>
OpHardNe == <<"!", "=", "=">>

\* between with its second comparison made against the first operand.
between_secondAgainstFirst(operator, values, d) ==
    LET a == values[1]
        b == values[2]
        c == values[3]
    IN  IF operator = OpLt THEN AndThen(less(a, b), less(a, c))
        ELSE IF operator = OpLe THEN
            AndThen(OrElse(less(a, b), equals(a, b)), OrElse(less(a, c), equals(a, c)))
        ELSE Bool(FALSE)

between(operator, values, d) ==
    LET a == values[1]
        b == values[2]
        c == values[3]
    IN  IF operator = OpLt THEN AndThen(less(a, b), less(b, c))
        ELSE IF operator = OpLe THEN
            AndThen(OrElse(less(a, b), equals(a, b)), OrElse(less(b, c), equals(b, c)))
        ELSE Bool(FALSE)

unary(operator, value) ==
    IF isNumber(value) /\ Kind(value) # "float64" THEN PANIC
    ELSE LET b == IF isNumber(value) THEN value[2] > 0
                  ELSE IF isBool(value) THEN value[2]
                  ELSE FALSE
         IN  IF operator = OpNot THEN Bool(~b) ELSE Bool(b)

\* The loop of _and over values[i..], with the running r and v.
RECURSIVE andLoop(_, _, _)
andLoop(values, r, v) ==
    IF values = <<>> THEN (IF r /\ v > 0 THEN Float(v) ELSE Bool(r))
    ELSE LET value == Head(values)
         IN  IF isBool(value) THEN andLoop(Tail(values), r /\ value[2], v)
             ELSE IF Kind(value) # "float64" THEN PANIC
             ELSE andLoop(Tail(values), r, IF value[2] > v THEN value[2] ELSE v)

_and(values) == andLoop(values, TRUE, 0)

RECURSIVE _or(_)
_or(values) ==
    IF values = <<>> THEN Bool(FALSE)
    ELSE LET value == Head(values)
         IN  IF isBool(value) /\ value[2] THEN Bool(TRUE)
             ELSE IF isNumber(value) /\ Kind(value) # "float64" THEN PANIC
             ELSE IF isNumber(value) /\ value[2] > 0 THEN value
             ELSE _or(Tail(values))

\* v == value on two interface{} values: equal dynamic type and value; two
\* values of the same uncomparable type (slice, map) panic.
ifaceEq(v, value) ==
    IF Kind(v) # Kind(value) THEN Bool(FALSE)
    ELSE IF Kind(v) \in {"slice", "map"} THEN PANIC
    ELSE Bool(v[2] = value[2])

RECURSIVE inLoop(_, _)
inLoop(value, values) ==
    IF values = <<>> THEN Bool(FALSE)
    ELSE OrElse(ifaceEq(Head(values), value), inLoop(value, Tail(values)))

\* _in with a number and a string in an array haystack compared after the
\* string is parsed, as equals compares them.
_in_coercing(value, values) ==
    IF isString(values) THEN
        IF Kind(value) = "string" THEN Bool(Contains(values[2], value[2])) ELSE PANIC
    ELSE IF Kind(values) = "slice" THEN
        LET found == inLoop(value, values[2])
            loose(v) ==
                \/ Kind(v) = "float64" /\ Kind(value) = "string"
                       /\ v[2] = ParseFloat(value[2])
                \/ Kind(v) = "string" /\ Kind(value) = "float64"
                       /\ ParseFloat(v[2]) = value[2]
        IN  IF IsPanic(found) THEN PANIC
            ELSE Bool(found[2] \/ \E i \in 1..Len(values[2]) : loose(values[2][i]))
    ELSE PANIC

_in(value, values) ==
    IF isString(values) THEN
        IF Kind(value) = "string" THEN Bool(Contains(values[2], value[2])) ELSE PANIC
    ELSE IF Kind(values) = "slice" THEN inLoop(value, values[2])
    ELSE PANIC

----------------------------------------------------------------------------
(* The context resolver *)

getVarFromData(value, d, originalValue) ==
    IF ~isMap(d) THEN Nil
    ELSE LET found == IF value \in DOMAIN d[2] THEN d[2][value] ELSE Nil
             parsedValue ==
                 IF Kind(found) = "nil" /\ isSlice(originalValue) THEN
                     IF Len(originalValue[2]) < 2 THEN PANIC ELSE originalValue[2][2]
                 ELSE found
         IN  IF Kind(parsedValue) = "int" THEN Float(parsedValue[2]) ELSE parsedValue

\* The loop of getVar over the parts of the path.
RECURSIVE varLoop(_, _, _)
varLoop(parts, _data, value) ==
    IF parts = <<>> THEN _data
    ELSE LET next == getVarFromData(Head(parts), _data, value)
         IN  IF IsPanic(next) THEN PANIC ELSE varLoop(Tail(parts), next, value)

getVar(value, d) ==
    IF Kind(d) = "nil" THEN value
    ELSE IF isSlice(value) THEN
        IF Len(value[2]) = 0 \/ Kind(value[2][1]) # "string" THEN PANIC
        ELSE varLoop(Split(value[2][1][2]), d, value)
    ELSE IF isNumber(value) THEN
        IF Kind(value) # "float64" \/ Kind(d) # "slice" THEN PANIC
        ELSE IF value[2] < 0 \/ value[2] >= Len(d[2]) THEN PANIC
        ELSE d[2][value[2] + 1]
    ELSE IF Kind(value) # "string" THEN PANIC
    ELSE varLoop(Split(value[2]), d, value)

----------------------------------------------------------------------------
(* The evaluator *)

operation(operator, values, d) ==
    IF operator = OpVar THEN getVar(values, d)
    ELSE IF isPrimitive(values) THEN unary(operator, values)
    ELSE IF Kind(values) # "slice" THEN PANIC
    ELSE LET parsed == values[2]
             n == Len(parsed)
         IN  IF n = 1 THEN
                 (IF Kind(parsed[1]) = "bool" THEN unary(operator, parsed[1]) ELSE PANIC)
             ELSE IF operator = OpAnd THEN _and(parsed)
             ELSE IF operator = OpOr THEN _or(parsed)
             ELSE IF operator = OpTernary THEN
                 IF n = 0 \/ Kind(parsed[1]) # "bool" THEN PANIC
                 ELSE IF parsed[1][2] THEN parsed[2]
                 ELSE IF n < 3 THEN PANIC
                 ELSE parsed[3]
             ELSE IF n = 0 THEN PANIC
             ELSE IF operator = OpIn THEN _in(parsed[1], parsed[2])
             ELSE IF n = 3 THEN between(operator, parsed, d)
             ELSE IF operator = OpLt THEN less(parsed[1], parsed[2])
             ELSE IF operator = OpGt THEN less(parsed[2], parsed[1])
             ELSE IF operator = OpLe THEN
                 OrElse(less(parsed[1], parsed[2]), equals(parsed[1], parsed[2]))
             ELSE IF operator = OpGe THEN
                 OrElse(less(parsed[2], parsed[1]), equals(parsed[1], parsed[2]))
             ELSE IF operator = OpHardEq THEN hardEquals(parsed[1], parsed[2])
             ELSE IF operator = OpNe THEN Not(equals(parsed[1], parsed[2]))
             ELSE IF operator = OpHardNe THEN Not(hardEquals(parsed[1], parsed[2]))
             ELSE equals(parsed[1], parsed[2])

RECURSIVE apply(_, _)
RECURSIVE parseLoop(_, _, _)

\* The loop of parseValues: values still to visit, and parsed so far.
parseLoop(values, d, parsed) ==
    IF values = <<>> THEN Slice(parsed)
    ELSE LET value == Head(values)
             v == IF isMap(value) THEN apply(value, d) ELSE value
         IN  IF IsPanic(v) THEN PANIC
             ELSE parseLoop(Tail(values), d, Append(parsed, v))

parseValues(values, d) ==
    IF isPrimitive(values) THEN values
    ELSE IF Kind(values) # "slice" THEN PANIC
    ELSE parseLoop(values[2], d, <<>>)

\* Every rule object of Init has at most one key, so the key the range
\* statement visits first is determined.
apply(rule, d) ==
    IF Kind(rule) # "map" THEN PANIC
    ELSE IF DOMAIN rule[2] = {} THEN Bool(FALSE)
    ELSE LET operator == CHOOSE k \in DOMAIN rule[2] : TRUE
             values == parseValues(rule[2][operator], d)
         IN  IF IsPanic(values) THEN PANIC ELSE operation(operator, values, d)

----------------------------------------------------------------------------
(* What an evaluation leaves in the rule tree *)

\* The element of the operand list that parseValues has visited, v being what
\* it appended for it, with the append made into the operand list's own
\* backing array (parsed sliced from values instead of made afresh).
element_overwritten(value, v) == v

\* The element of the operand list that parseValues has visited, v being what
\* it appended for it: parsed is made afresh, so the append writes nothing
\* into the operand list.
element(value, v) == value

RECURSIVE stored(_, _)
RECURSIVE storedLoop(_, _)

\* The operand list as the loop of parseValues leaves it; a panic ends the
\* loop with the elements not yet visited as they were.
storedLoop(values, d) ==
    IF values = <<>> THEN <<>>
    ELSE LET value == Head(values)
             v == IF isMap(value) THEN apply(value, d) ELSE value
             kept == IF isMap(value) THEN stored(value, d) ELSE value
         IN  IF IsPanic(v) THEN <<kept>> \o Tail(values)
             ELSE <<element(kept, v)>> \o storedLoop(Tail(values), d)

\* The rule object as apply leaves it.
stored(rule, d) ==
    IF ~isMap(rule) \/ DOMAIN rule[2] = {} THEN rule
    ELSE LET operator == CHOOSE k \in DOMAIN rule[2] : TRUE
             values == rule[2][operator]
         IN  IF ~isSlice(values) THEN rule
             ELSE Map([k \in {operator} |-> Slice(storedLoop(values[2], d))])

----------------------------------------------------------------------------
(* The entry point *)

\* The kinds of location the caller passes as result: a pointer to an
\* interface{}, a float64, a string or a bool, or something not a pointer.
Targets == {"interface", "float64", "string", "bool", "nonptr"}

\* The zero value the caller's location holds before the call.
Zero(t) ==
    CASE t = "float64" -> Float(0)
      [] t = "string" -> Str(<<>>)
      [] t = "bool" -> Bool(FALSE)
      [] OTHER -> Nil

\* The value the location holds after convertToResult, or PANIC.
convertToResult(t, old, _result) ==
    IF t \in {"float64", "string", "bool"} THEN
        (IF Kind(_result) = t THEN _result ELSE PANIC)
    ELSE IF Kind(_result) = "nil" THEN old
    ELSE _result

Bind(v) ==
    LET c == IF IsPanic(v) THEN PANIC ELSE convertToResult(target, result, v)
    IN  IF IsPanic(c)
        THEN ret' = "panic" /\ UNCHANGED result
        ELSE ret' = "nil" /\ result' = c

\* Apply returns "Result must be a pointer".
ApplyBadResult ==
    /\ ret = "pending"
    /\ target = "nonptr"
    /\ ret' = "error"
    /\ calls' = calls + 1
    /\ UNCHANGED <<rules, data, target, result>>

\* Apply on a rule object.
ApplyRule ==
    /\ ret = "pending"
    /\ target # "nonptr"
    /\ isMap(rules)
    /\ Bind(apply(rules, data))
    /\ rules' = stored(rules, data)
    /\ calls' = calls + 1
    /\ UNCHANGED <<data, target>>

\* Apply on a rule that is no object: the rule itself is the result.
ApplyLiteral ==
    /\ ret = "pending"
    /\ target # "nonptr"
    /\ ~isMap(rules)
    /\ Bind(rules)
    /\ calls' = calls + 1
    /\ UNCHANGED <<rules, data, target>>

Next == ApplyBadResult \/ ApplyRule \/ ApplyLiteral

\* A call of Apply(rules, data, result) that has been made and not yet run.
Call(R, D) ==
    /\ rules \in R
    /\ data \in D
    /\ target \in Targets
    /\ result = Zero(target)
    /\ ret = "pending"
    /\ calls = 0

Rule(operator, operand) == Map([k \in {operator} |-> operand])
Literals == {Bool(TRUE), Float(1)}

----------------------------------------------------------------------------
(* Variable references: the calls of specification Spec *)

MaxSegs == 3
MaxIndex == 1

SegNames == {<<"a">>, <<"b">>}

\* The sequences of 1..n segment names.
SegSeqs(n) == UNION {[1..k -> SegNames] : k \in 1..n}

RECURSIVE Join(_)
Join(segs) ==
    IF Len(segs) = 1 THEN segs[1] ELSE segs[1] \o <<".">> \o Join(Tail(segs))

\* The object that holds leaf at the end of the path segs.
RECURSIVE Nest(_, _)
Nest(segs, leaf) ==
    IF segs = <<>> THEN leaf
    ELSE Map([k \in {Head(segs)} |-> Nest(Tail(segs), leaf)])

Paths == {<<>>, <<".", "a">>} \cup {Join(p) : p \in SegSeqs(MaxSegs)}
Defaults == {Float(42), Str(<<"d">>)}

DataLeaves ==
    {Float(1), IntV(7), Str(<<"s">>), Bool(TRUE), Slice(<<Float(1), Float(2)>>),
     Map(EmptyMap)}

VarData ==
    {Nil, Map([k \in {<<>>} |-> Float(9)]), Map([k \in {<<"a">>} |-> Nil])}
        \cup DataLeaves
        \cup {Nest(p, l) : p \in SegSeqs(MaxSegs), l \in DataLeaves}

VarRules ==
    {Rule(OpVar, Str(p)) : p \in Paths}
        \cup {Rule(OpVar, Slice(<<Str(p), d>>)) : p \in Paths, d \in Defaults}
        \cup {Rule(OpVar, Slice(<<Str(p)>>)) : p \in Paths}
        \cup {Rule(OpVar, Float(i)) : i \in 0..MaxIndex}

Init == Call(VarRules \cup Literals, VarData)

Spec == Init /\ [][Next]_vars

----------------------------------------------------------------------------
(* Comparisons of two operands: the calls of specification SpecCompare *)

MaxStrLen == 2
MaxNum == 12
MaxNeg == 2

Alphabet == {"-", "1", "a"}

\* The strings of at most n characters.
Strings(n) == UNION {[1..k -> Alphabet] : k \in 0..n}

CompareOps == {OpLt, OpGt, OpLe, OpGe, OpEq, OpNe, OpHardEq, OpHardNe}

NumOrStr(maxNeg, maxNum, maxLen) ==
    {Float(n) : n \in (0 - maxNeg)..maxNum} \cup {Str(s) : s \in Strings(maxLen)}

CompareOperands == NumOrStr(MaxNeg, MaxNum, MaxStrLen) \cup {Bool(TRUE), Nil}

CompareRules ==
    {Rule(o, Slice(<<a, b>>)) : o \in CompareOps, a, b \in CompareOperands}

NoData == {Nil, Map(EmptyMap)}

InitCompare == Call(CompareRules \cup Literals, {Nil})

SpecCompare == InitCompare /\ [][Next]_vars

----------------------------------------------------------------------------
(* Chained comparisons of three operands: specification SpecBetween *)

MaxTriNum == 3
MaxTriStrLen == 1

BetweenOperands == NumOrStr(0, MaxTriNum, MaxTriStrLen)

BetweenOps == {OpLt, OpLe, OpGt, OpEq}

BetweenRules ==
    {Rule(o, Slice(<<a, b, c>>)) : o \in BetweenOps, a, b, c \in BetweenOperands}

InitBetween == Call(BetweenRules \cup Literals, {Nil})

SpecBetween == InitBetween /\ [][Next]_vars

----------------------------------------------------------------------------
(* and, or, ?:, ! and !! over booleans and numbers: specification SpecLogic *)

MaxLen == 3
MaxLogicNum == 2

LogicOps == {OpAnd, OpOr, OpTernary, OpNot, OpNotNot}

LogicOperands == {Bool(TRUE), Bool(FALSE)} \cup {Float(n) : n \in -1..MaxLogicNum}

\* The lists of at most n elements of S.
Lists(S, n) == UNION {[1..k -> S] : k \in 0..n}

LogicRules ==
    {Rule(o, Slice(l)) : o \in LogicOps, l \in Lists(LogicOperands, MaxLen)}
        \cup {Rule(o, x) : o \in LogicOps, x \in LogicOperands}

InitLogic == Call(LogicRules \cup Literals, NoData)

SpecLogic == InitLogic /\ [][Next]_vars

----------------------------------------------------------------------------
(* in: specification SpecIn *)

MaxInLen == 3

InElems == {Float(1), Float(2), Float(3), Str(<<"2">>), Slice(<<Float(1)>>)}

InNeedles ==
    {Str(s) : s \in Strings(MaxStrLen)}
        \cup {Float(1), Float(2), Str(<<"2">>), Bool(TRUE), Nil, Slice(<<Float(1)>>)}

InHaystacks ==
    {Str(s) : s \in Strings(MaxStrLen)}
        \cup {Slice(l) : l \in Lists(InElems, MaxInLen)}

InRules == {Rule(OpIn, Slice(<<n, h>>)) : n \in InNeedles, h \in InHaystacks}

InitIn == Call(InRules \cup Literals, {Nil})

SpecIn == InitIn /\ [][Next]_vars

----------------------------------------------------------------------------
(* Rules nested in operands: specification SpecNested *)

NestedData ==
    {Nil, Map(EmptyMap)}
        \cup {Nest(p, l) : p \in SegSeqs(2),
                           l \in {Bool(TRUE), Bool(FALSE), Float(1), Float(-2)}}

InnerRules ==
    {Rule(OpVar, Str(Join(p))) : p \in SegSeqs(2)}
        \cup {Rule(OpLt, Slice(<<Float(1), Float(2)>>)),
              Rule(OpNot, Bool(TRUE))}

NestedOps == {OpNot, OpNotNot, OpAnd, OpOr, OpEq, OpLt}

NestedRules ==
    {Rule(o, r) : o \in NestedOps, r \in InnerRules}
        \cup {Rule(o, Slice(<<r>>)) : o \in NestedOps, r \in InnerRules}
        \cup {Rule(o, Slice(<<r, x>>)) : o \in NestedOps, r \in InnerRules,
                                         x \in {Bool(TRUE), Float(1)}}
        \cup {Rule(o, Slice(<<x, r>>)) : o \in NestedOps, r \in InnerRules,
                                         x \in {Bool(TRUE), Float(1)}}

InitNested == Call(NestedRules \cup Literals, NestedData)

SpecNested == InitNested /\ [][Next]_vars

----------------------------------------------------------------------------
(* A rule and its data used for call after call: specification SpecReuse *)

MaxCalls == 2

\* The caller, whose last call returned, calls Apply once more with the same
\* rules, data and result.
ApplyAgain ==
    /\ ret \in {"nil", "error"}
    /\ calls < MaxCalls
    /\ ret' = "pending"
    /\ UNCHANGED <<rules, data, target, result, calls>>

NextReuse == Next \/ ApplyAgain

SpecReuse == InitNested /\ [][NextReuse]_vars

----------------------------------------------------------------------------
(* Logical operators over rules that may fail: specification SpecShort *)

\* Sub-rules that panic ({"==": ["a", 1]}, {"in": [1, "a"]}), and that do not.
FailingRules ==
    {Rule(OpEq, Slice(<<Str(<<"a">>), Float(1)>>)),
     Rule(OpIn, Slice(<<Float(1), Str(<<"a">>)>>))}

SoundRules ==
    {Rule(OpLt, Slice(<<Float(1), Float(2)>>)),
     Rule(OpVar, Str(<<"a">>)),
     Rule(OpNot, Bool(TRUE))}

ShortOperands ==
    FailingRules \cup SoundRules \cup {Bool(TRUE), Bool(FALSE), Float(1), Float(0)}

ShortData == {Nil} \cup {Map([k \in {<<"a">>} |-> Bool(b)]) : b \in BOOLEAN}

ShortRules ==
    {Rule(o, Slice(<<x, y>>)) : o \in {OpAnd, OpOr}, x, y \in ShortOperands}
        \cup {Rule(o, Slice(<<x, y, z>>)) : o \in {OpAnd, OpOr},
                                            x, y, z \in ShortOperands}
        \cup {Rule(OpTernary, Slice(<<x, y, z>>)) : x, y, z \in ShortOperands}

InitShort == Call(ShortRules \cup Literals, ShortData)

SpecShort == InitShort /\ [][Next]_vars

----------------------------------------------------------------------------
(* What the properties read off a state *)

\* The call has run and the caller passed a pointer to an interface{}, which
\* can hold any result.
Returned == ret # "pending" /\ target = "interface"

IsRule == isMap(rules) /\ DOMAIN rules[2] # {}
RuleOp == CHOOSE k \in DOMAIN rules[2] : TRUE
Operand == rules[2][RuleOp]
IsOp(operator) == IsRule /\ RuleOp = operator
Args == Operand[2]
IsOpOn(operator, n) == IsOp(operator) /\ isSlice(Operand) /\ Len(Args) = n

\* What a path of segments denotes in a context: the value reached by
\* descending through objects, or Nil once a key is missing or the value
\* descended into is no object.
RECURSIVE Denotes(_, _)
Denotes(segs, c) ==
    IF segs = <<>> THEN c
    ELSE IF Kind(c) = "map" /\ Head(segs) \in DOMAIN c[2]
         THEN Denotes(Tail(segs), c[2][Head(segs)])
         ELSE Nil

\* The operand is [path, default] and the path is made of 1..MaxSegs names.
IsVarWithDefault ==
    /\ IsOpOn(OpVar, 2)
    /\ \E p \in SegSeqs(MaxSegs) : Args[1] = Str(Join(p))

VarSegs == CHOOSE p \in SegSeqs(MaxSegs) : Args[1] = Str(Join(p))

----------------------------------------------------------------------------
(* C1 *)

\* C1: {"var": [path, default]} against data that is not null yields the
\* default whenever a segment of the path resolves to nothing, however many
\* segments the path has.
C1_DefaultWhenMissing ==
    (Returned /\ IsVarWithDefault /\ Kind(data) # "nil"
        /\ Kind(Denotes(VarSegs, data)) = "nil")
    => (ret = "nil" /\ result = Args[2])

----------------------------------------------------------------------------
(* C2 *)

\* C2: {"var": ""} against a context c that is a scalar, an array or an
\* object yields c.
C2_EmptyPathIsContext ==
    (Returned /\ IsOp(OpVar) /\ Operand = Str(<<>>)
        /\ Kind(data) \in {"float64", "string", "bool", "slice", "map"})
    => (ret = "nil" /\ result = data)

----------------------------------------------------------------------------
(* C3 *)

\* C3: with absent data Apply returns no error, and a var reference yields
\* the default of its [path, default] operand, or null when it has none.
C3_NilDataDefaults ==
    (Returned /\ IsOp(OpVar) /\ Kind(data) = "nil")
    => (ret = "nil"
        /\ result = IF isSlice(Operand) /\ Len(Args) = 2 THEN Args[2] ELSE Nil)

----------------------------------------------------------------------------
(* C4 *)

\* A string first operand of == or != with a second operand that is no string.
IsEqualsMismatch ==
    /\ IsOp(OpEq) \/ IsOp(OpNe)
    /\ isSlice(Operand) /\ Len(Args) = 2
    /\ Kind(Args[1]) = "string" /\ Kind(Args[2]) # "string"

\* A substring test whose needle is no string.
IsInMismatch ==
    /\ IsOpOn(OpIn, 2)
    /\ Kind(Args[2]) = "string" /\ Kind(Args[1]) # "string"

\* C4: a type mismatch inside an operator makes Apply return an error: it
\* neither returns a result nor panics.
C4_MismatchIsError ==
    (Returned /\ (IsEqualsMismatch \/ IsInMismatch)) => ret = "error"

----------------------------------------------------------------------------
(* C5 *)

\* w > v in the lexical order of strings: at the first place where they
\* differ w has the greater byte, or v has ended.
LexGreater(w, v) ==
    \E i \in 1..Len(w) :
        /\ \A j \in 1..(i - 1) : j <= Len(v) /\ w[j] = v[j]
        /\ i > Len(v) \/ Code(w[i]) > Code(v[i])

IsNumOrStr(x) == Kind(x) \in {"float64", "string"}

\* What the claim says less(a, b) is: b coerced to the kind of a.
LessAsClaimed(a, b) ==
    IF Kind(a) = "float64"
    THEN (IF Kind(b) = "string" THEN ParseFloat(b[2]) ELSE b[2]) > a[2]
    ELSE LexGreater(IF Kind(b) = "float64" THEN FormatFloat(b[2]) ELSE b[2], a[2])

\* C5: for numbers and strings a and b, {"<": [a, b]} is b > a with only b
\* coerced, to the kind of a: a string b is parsed (0 when unparsable) for a
\* number a, a number b is written in decimal for a string a.
C5_LessCoercesSecondOperand ==
    (Returned /\ IsOpOn(OpLt, 2) /\ IsNumOrStr(Args[1]) /\ IsNumOrStr(Args[2]))
    => (ret = "nil" /\ result = Bool(LessAsClaimed(Args[1], Args[2])))

\* A number below zero is less than an unparsable string, which counts as 0.
C5_Witness ==
    /\ Returned /\ IsOpOn(OpLt, 2)
    /\ Args = <<Float(-1), Str(<<"a">>)>>
    /\ result = Bool(TRUE)

----------------------------------------------------------------------------
(* C6 *)

Truthy(x) == IF Kind(x) = "bool" THEN x[2] ELSE x[2] > 0
IsBoolOrNum(x) == Kind(x) \in {"bool", "float64"}
AllBoolOrNum(l) == \A i \in 1..Len(l) : IsBoolOrNum(l[i])
PositiveNums(l) == {l[i][2] : i \in {j \in 1..Len(l) : Kind(l[j]) = "float64" /\ l[j][2] > 0}}
MaxOf(S) == CHOOSE m \in S : \A n \in S : n <= m

\* C6: and over booleans and numbers returns the greatest number exactly
\* when every operand is truthy and a positive number is among them, and
\* the boolean AND of the operands otherwise.
C6_AndMaxIffAllTruthy ==
    (Returned /\ IsOp(OpAnd) /\ isSlice(Operand) /\ AllBoolOrNum(Args))
    => /\ ret = "nil"
       /\ result =
            IF (\A i \in 1..Len(Args) : Truthy(Args[i])) /\ PositiveNums(Args) # {}
            THEN Float(MaxOf(PositiveNums(Args)))
            ELSE Bool(\A i \in 1..Len(Args) : Truthy(Args[i]))

----------------------------------------------------------------------------
(* C7 *)

\* C7: or over one or more booleans and numbers returns the first operand
\* that is true or a positive number, and false when there is none.
C7_OrFirstTruthy ==
    (Returned /\ IsOp(OpOr) /\ isSlice(Operand) /\ Len(Args) >= 1 /\ AllBoolOrNum(Args))
    => /\ ret = "nil"
       /\ result =
            IF \E i \in 1..Len(Args) : Truthy(Args[i])
            THEN Args[CHOOSE i \in 1..Len(Args) :
                        Truthy(Args[i]) /\ \A j \in 1..(i - 1) : ~Truthy(Args[j])]
            ELSE Bool(FALSE)

----------------------------------------------------------------------------
(* C8 *)

\* n occurs in h: h is some prefix, then n, then some suffix.
IsSubstring(n, h) ==
    \E i \in 0..Len(h) : \E j \in i..Len(h) :
        SubSeq(h, i + 1, j) = n

\* x and y are the same value of the same kind.
SameValue(x, y) == Kind(x) = Kind(y) /\ x[2] = y[2]

IsScalar(x) == Kind(x) \in {"nil", "bool", "float64", "string"}

----------------------------------------------------------------------------
(* C9 *)

\* What the call came to: the value in the result location, or PANIC.
Outcome == IF ret = "panic" THEN PANIC ELSE result

\* C9: for numbers and strings a, b, c, {"<": [a, b, c]} is {"<": [a, b]}
\* && {"<": [b, c]} and {"<=": [a, b, c]} is {"<=": [a, b]} && {"<=": [b, c]}.
C9_ChainIsPairwiseConjunction ==
    (Returned /\ (IsOpOn(OpLt, 3) \/ IsOpOn(OpLe, 3))
        /\ \A i \in 1..3 : IsNumOrStr(Args[i]))
    => /\ Outcome =
            AndThen(apply(Rule(RuleOp, Slice(<<Args[1], Args[2]>>)), data),
                    apply(Rule(RuleOp, Slice(<<Args[2], Args[3]>>)), data))
       /\ (IsOp(OpLt) /\ Args = <<Float(1), Float(2), Float(3)>>) => result = Bool(TRUE)
       /\ (IsOp(OpLt) /\ Args = <<Float(1), Float(3), Float(2)>>) => result = Bool(FALSE)
       /\ (IsOp(OpLe) /\ Args = <<Float(1), Float(1), Float(2)>>) => result = Bool(TRUE)

\* {"<=": [1, 1, 2]} is true.
C9_Witness ==
    /\ Returned /\ IsOpOn(OpLe, 3)
    /\ Args = <<Float(1), Float(1), Float(2)>>
    /\ result = Bool(TRUE)

----------------------------------------------------------------------------
(* C10 *)

\* The operand with every operator-object in it replaced by its value.
EvaluatedOperand ==
    IF isMap(Operand) THEN apply(Operand, data)
    ELSE IF isSlice(Operand) THEN
        IF \E i \in 1..Len(Args) : isMap(Args[i]) /\ IsPanic(apply(Args[i], data))
        THEN PANIC
        ELSE Slice([i \in 1..Len(Args) |->
                      IF isMap(Args[i]) THEN apply(Args[i], data) ELSE Args[i]])
    ELSE Operand

HasNestedRule ==
    \/ isMap(Operand)
    \/ isSlice(Operand) /\ \E i \in 1..Len(Args) : isMap(Args[i])

\* C10: an operand that is an operator-object, or an array holding one, is
\* evaluated before the operator is dispatched: the operator receives the
\* value of the nested rule, and that the rule is nested makes nothing fail.
C10_OperandEvaluatedFirst ==
    (Returned /\ IsRule /\ RuleOp # OpVar /\ HasNestedRule
        /\ ~IsPanic(EvaluatedOperand))
    => Outcome = operation(RuleOp, EvaluatedOperand, data)

----------------------------------------------------------------------------
(* C11 *)

\* C11: no call of Apply changes a node of the rule tree or of the data
\* tree it is given, so the rule and the data the caller holds after any
\* number of calls are those it held before the first.
C11_InputsNeverMutated == [][rules' = rules /\ data' = data]_vars

\* A rule with an operator-object in its operand list has been evaluated
\* against an object MaxCalls times, each call returning a value.
C11_Witness ==
    /\ calls = MaxCalls
    /\ ret = "nil"
    /\ IsRule /\ isSlice(Operand)
    /\ \E i \in 1..Len(Args) : isMap(Args[i]) /\ ~IsPanic(apply(Args[i], data))
    /\ isMap(data) /\ DOMAIN data[2] # {}
    /\ result = Bool(TRUE)

----------------------------------------------------------------------------
(* C12 *)

\* The value of an operand taken on its own.
Val(x) == IF isMap(x) THEN apply(x, data) ELSE x

IsTruthy(x) == IsBoolOrNum(x) /\ Truthy(x)

\* The operands before the i-th have values, booleans or numbers, none of
\* which satisfies P, and the i-th has a value that does.
FirstWith(P(_), i) ==
    /\ \A j \in 1..(i - 1) :
          ~IsPanic(Val(Args[j])) /\ IsBoolOrNum(Val(Args[j])) /\ ~P(Val(Args[j]))
    /\ ~IsPanic(Val(Args[i])) /\ P(Val(Args[i]))

IsFalse(x) == x = Bool(FALSE)

\* The branch of a ?: rule that its condition selects.
Selected == IF Val(Args[1])[2] THEN Args[2] ELSE Args[3]

\* C12: or is decided by its first truthy operand and and by its first false
\* operand, whatever the operands after it are, and ?: is the value of the
\* branch its condition selects, whatever the other branch is: a failure of
\* an operand that is not needed does not reach the outcome.
C12_ShortCircuit ==
    /\ (Returned /\ IsOp(OpOr) /\ isSlice(Operand))
        => \A i \in 1..Len(Args) :
               FirstWith(IsTruthy, i) => Outcome = Val(Args[i])
    /\ (Returned /\ IsOp(OpAnd) /\ isSlice(Operand))
        => \A i \in 1..Len(Args) :
               FirstWith(IsFalse, i) => Outcome = Bool(FALSE)
    /\ (Returned /\ IsOpOn(OpTernary, 3) /\ ~IsPanic(Val(Args[1]))
            /\ Kind(Val(Args[1])) = "bool" /\ ~IsPanic(Val(Selected)))
        => Outcome = Val(Selected)

----------------------------------------------------------------------------
(* C13 *)

\* The operand of a unary form: a bare primitive, or the only element of a
\* one-element list.
IsUnaryForm == isPrimitive(Operand) \/ (isSlice(Operand) /\ Len(Args) = 1)
UnaryArg == IF isSlice(Operand) THEN Args[1] ELSE Operand

\* C13: for a boolean or a number x, {"!": x} and {"!": [x]} both return the
\* negation of truthy(x), x itself for a boolean and x > 0 for a number.
C13_NotOfBareAndListed ==
    (Returned /\ IsOp(OpNot) /\ IsUnaryForm /\ IsBoolOrNum(UnaryArg))
    => (ret = "nil" /\ result = Bool(~Truthy(UnaryArg)))

----------------------------------------------------------------------------
(* C14 *)

\* C14: for a boolean, a number or a string x, {"==": [x, x]} and
\* {"===": [x, x]} return true and {"!=": [x, x]} and {"!==": [x, x]} return
\* false.
C14_EqualityReflexive ==
    (Returned /\ IsRule /\ isSlice(Operand) /\ Len(Args) = 2
        /\ Args[1] = Args[2] /\ isPrimitive(Args[1]))
    => /\ RuleOp \in {OpEq, OpHardEq} => (ret = "nil" /\ result = Bool(TRUE))
       /\ RuleOp \in {OpNe, OpHardNe} => (ret = "nil" /\ result = Bool(FALSE))

====
